---- MODULE Spec2Model ----
(***************************************************************************)
(* A model of squeak.py (teebes/squeak): the field splitter                *)
(* get_fields_from_sql and the Squeak class, which emulates DROP COLUMN,   *)
(* RENAME COLUMN and a change of a column definition on SQLite by creating *)
(* a <table>_tmp table, copying the rows and swapping the tables.          *)
(*                                                                         *)
(* Text is modelled as a sequence of one-character strings, so that the    *)
(* regular expressions of the source are modelled by what they match.      *)
(* The placeholder '#__#' is the single symbol PH: no modelled input holds *)
(* '#', so no character of a placeholder can take part in another match.   *)
(***************************************************************************)
EXTENDS Integers, Sequences, FiniteSets, TLC

VARIABLES
    lookup,         \* the rows the catalog query for table_name yields, in order
    creation_sql,   \* self.creation_sql: the text between the outer parentheses
    fields,         \* self.fields: the in-memory field list
    ctor,           \* how the field splitter ended: "pending", "ok", "IndexError"
    disk,           \* the committed database: live, tmp, initial -> table
    conn,           \* the connection's view: disk plus its open transaction
    inTxn,          \* the connection has an open transaction
    pc,             \* position of the running call ("idle" between calls)
    call,           \* the running or last call: op, column, arg, safe
    new_fields,     \* the call's local new field list
    columns,        \* drop_column's local projection list
    result,         \* how the last call ended: "none", "ok", "fail", "raise"
    raisedAt,       \* the step the last call raised at ("" if it did not)
    pre,            \* history: disk and fields when the running call started
    ncalls,         \* calls started so far
    log             \* history: the database statements and commits of the call

vars == <<lookup, creation_sql, fields, ctor, disk, conn, inTxn, pc, call, new_fields,
          columns, result, raisedAt, pre, ncalls, log>>

-----------------------------------------------------------------------------
(* Bounds *)

\* the longest generated column list of SpecParse
MaxLen == 6
\* the calls made on one Squeak instance
MaxCalls == 3
\* the longest generated column list of SpecLookup
LookupLen == 3

-----------------------------------------------------------------------------
(* Characters and text *)

PH == "#__#"
DQ == "\""
NL == "\n"

IsSpace(c) == c \in {" ", NL}
IsQuote(c) == c \in {DQ, "'"}
\* \w of the regular expressions, over the characters the model uses
IsWord(c) == c \in {"a", "b", "c", "d", "e", "f", "g", "h", "i", "j", "k", "l",
                    "m", "n", "o", "p", "q", "r", "s", "t", "u", "v", "w", "x",
                    "y", "z", "A", "B", "C", "D", "E", "F", "G", "H", "I", "J",
                    "K", "L", "M", "N", "O", "P", "Q", "R", "S", "T", "U", "V",
                    "W", "X", "Y", "Z", "0", "1", "2", "3", "4", "5", "6", "7",
                    "8", "9", "_"}

Sub(s, i, j) == IF i > j THEN <<>> ELSE SubSeq(s, i, j)

\* s has t at position i
HasAt(s, t, i) == /\ i >= 1
                  /\ i + Len(t) - 1 <= Len(s)
                  /\ \A k \in 1..Len(t) : s[i + k - 1] = t[k]

\* the least element of a non-empty set of positions
Least(ks) == CHOOSE k \in ks : \A j \in ks : k <= j

\* the first position >= i where c occurs in s, or 0
IndexFrom(s, c, i) ==
    LET ks == {k \in i..Len(s) : k >= 1 /\ s[k] = c}
    IN  IF ks = {} THEN 0 ELSE Least(ks)

\* the first position >= i where the text t occurs in s, or 0
FindFrom(s, t, i) ==
    LET ks == {k \in i..Len(s) : HasAt(s, t, k)}
    IN  IF ks = {} THEN 0 ELSE Least(ks)

-----------------------------------------------------------------------------
(* get_fields_from_sql *)

\* line 76: ' '.join(creation_sql.split('\n'))
InlineSql(s) == [i \in 1..Len(s) |-> IF s[i] = NL THEN " " ELSE s[i]]

\* line 91: re.findall('\([^\)]+\)', fields): leftmost, non-overlapping; a match
\* runs from a "(" to the first ")" after it, with at least one character between
RECURSIVE FindParens(_, _)
FindParens(s, i) ==
    LET p == IndexFrom(s, "(", i)
        j == IndexFrom(s, ")", p + 1)
    IN  IF p = 0 THEN <<>>
        ELSE IF j = 0 \/ j = p + 1 THEN FindParens(s, p + 1)
        ELSE <<SubSeq(s, p, j)>> \o FindParens(s, j + 1)

\* line 101: re.sub(match, '#__#', fields): every non-overlapping occurrence of
\* the (escaped, hence literal) match text, left to right
RECURSIVE SubAll(_, _, _)
SubAll(s, pat, i) ==
    LET k == FindFrom(s, pat, i)
    IN  IF k = 0 THEN Sub(s, i, Len(s))
        ELSE Sub(s, i, k - 1) \o <<PH>> \o SubAll(s, pat, k + Len(pat))

\* lines 94-101: the loop over matches
RECURSIVE Protect(_, _)
Protect(s, matches) ==
    IF matches = <<>> THEN s
    ELSE Protect(SubAll(s, Head(matches), 1), Tail(matches))

\* line 104: fields.split(',')
RECURSIVE SplitComma(_)
SplitComma(s) ==
    LET j == IndexFrom(s, ",", 1)
    IN  IF j = 0 THEN <<s>>
        ELSE <<Sub(s, 1, j - 1)>> \o SplitComma(Sub(s, j + 1, Len(s)))

\* line 107: re.sub('(^\s+|\s+$)', '', field)
RECURSIVE LStrip(_)
LStrip(s) == IF s # <<>> /\ IsSpace(Head(s)) THEN LStrip(Tail(s)) ELSE s
RECURSIVE RStrip(_)
RStrip(s) == IF s # <<>> /\ IsSpace(s[Len(s)])
             THEN RStrip(Sub(s, 1, Len(s) - 1)) ELSE s
Strip(s) == RStrip(LStrip(s))

HasPH(s) == \E i \in 1..Len(s) : s[i] = PH

\* line 113: re.sub('#__#', m, field): every placeholder of the field becomes m
RECURSIVE FillPH(_, _)
FillPH(s, m) ==
    LET k == IndexFrom(s, PH, 1)
    IN  IF k = 0 THEN s
        ELSE Sub(s, 1, k - 1) \o m \o FillPH(Sub(s, k + 1, Len(s)), m)

\* lines 110-115: the restore loop; matches.pop(0) on an empty list raises
RECURSIVE Restore(_, _)
Restore(fs, matches) ==
    IF fs = <<>> THEN [raised |-> FALSE, fields |-> <<>>]
    ELSE IF HasPH(Head(fs))
    THEN IF matches = <<>> THEN [raised |-> TRUE, fields |-> <<>>]
         ELSE LET rest == Restore(Tail(fs), Tail(matches))
              IN  [raised |-> rest.raised,
                   fields |-> IF rest.raised THEN <<>>
                              ELSE <<FillPH(Head(fs), Head(matches))>> \o rest.fields]
    ELSE LET rest == Restore(Tail(fs), matches)
         IN  [raised |-> rest.raised,
              fields |-> IF rest.raised THEN <<>> ELSE <<Head(fs)>> \o rest.fields]

\* lines 70-117, from the text the pattern of lines 79-82 captures
get_fields_from_sql(body) ==
    LET inline    == InlineSql(body)
        matches   == FindParens(inline, 1)
        protected == Protect(inline, matches)
        pieces    == SplitComma(protected)
        stripped  == [i \in 1..Len(pieces) |-> Strip(pieces[i])]
    IN  Restore(stripped, matches)

-----------------------------------------------------------------------------
(* The words of the modelled SQL *)

SP == <<" ">>
ID == <<"i", "d">>
NM == <<"n", "m">>
ZZ == <<"z", "z">>
XX == <<"x">>
INT == <<"i", "n", "t">>
TEXT == <<"t", "e", "x", "t">>
VARCHAR20 == <<"v", "a", "r", "c", "h", "a", "r", " ", "(", "2", "0", ")">>
NOTNULL == <<"N", "O", "T", " ", "N", "U", "L", "L">>
FOREIGN == <<"F", "O", "R", "E", "I", "G", "N">>
REFERENCES == <<"R", "E", "F", "E", "R", "E", "N", "C", "E", "S">>
FKTAIL == <<" ", "K", "E", "Y", " ", "(", DQ, "n", "m", DQ, ")", " ">>
              \o REFERENCES \o <<" ", DQ, "m", DQ, " ", "(", DQ, "i", "d", DQ, ")">>
Quoted(w) == <<DQ>> \o w \o <<DQ>>
COMMA == <<",", NL, " ", " ", " ", " ">>

\* The creation statements the model starts from (the text between the outer
\* parentheses): the two shapes of tests.py, a table of untyped bare columns,
\* and a table with a trailing table-level FOREIGN KEY clause.
Body1 == Quoted(ID) \o SP \o INT \o SP \o NOTNULL \o COMMA \o Quoted(NM) \o SP \o VARCHAR20
Body2 == ID \o COMMA \o NM \o SP \o TEXT
Body3 == Quoted(ID) \o SP \o INT \o COMMA \o Quoted(NM) \o SP \o INT \o COMMA
            \o FOREIGN \o FKTAIL
\* a column list with a comma inside nested parentheses:
\* x int CHECK (max(abs(x), 1))
\* a table with a column named by a quoted keyword and a table-level clause
\* that starts with the same word:
\* "FOREIGN" int, "nm" int, FOREIGN KEY ("nm") REFERENCES "m" ("id")
Body5 == Quoted(FOREIGN) \o SP \o INT \o COMMA \o Quoted(NM) \o SP \o INT \o COMMA
            \o FOREIGN \o FKTAIL
\* the sql of an index row: CREATE INDEX i ON t (id)
IndexSql == <<"C", "R", "E", "A", "T", "E", " ", "I", "N", "D", "E", "X", " ", "i",
              " ", "O", "N", " ", "t", " ", "(", "i", "d", ")">>
Body4 == XX \o SP \o INT \o <<" ", "C", "H", "E", "C", "K", " ", "(", "m", "a", "x", "(",
                               "a", "b", "s", "(", "x", ")", ",", " ", "1", ")", ")">>

-----------------------------------------------------------------------------
(* The regular expressions of the three operations *)

\* the maximal run of \w characters of s from position i
RECURSIVE WordRun(_, _)
WordRun(s, i) ==
    IF i <= Len(s) /\ IsWord(s[i]) THEN <<s[i]>> \o WordRun(s, i + 1) ELSE <<>>

\* lines 169-171 and 206: re.match(r'["\']?(?P<column>\w+)["\']?', field): the
\* group, or <<>> when there is no match (re.match returns None)
MatchCol(field) ==
    LET start == IF field # <<>> /\ IsQuote(field[1]) THEN 2 ELSE 1
    IN  WordRun(field, start)

\* lines 209-211: re.sub(r'^["\']?%s["\']?' % old, '"%s"' % new, field), for a
\* field whose leading identifier is old
RenameLead(field, old, new) ==
    LET start == IF field # <<>> /\ IsQuote(field[1]) THEN 2 ELSE 1
        after == start + Len(old)
        rest  == IF after <= Len(field) /\ IsQuote(field[after])
                 THEN after + 1 ELSE after
    IN  IF HasAt(field, old, start)
        THEN Quoted(new) \o Sub(field, rest, Len(field))
        ELSE field

\* line 240: the pattern ["\']?(\w+)["\']?\s(.*) tried at position i: the
\* position of the \s it ends on, or 0
ParseAt(field, i) ==
    LET start == IF i <= Len(field) /\ IsQuote(field[i]) THEN i + 1 ELSE i
        run   == WordRun(field, start)
        e     == start + Len(run)
        sp    == IF e <= Len(field) /\ IsQuote(field[e]) THEN e + 1 ELSE e
    IN  IF run # <<>> /\ sp <= Len(field) /\ IsSpace(field[sp]) THEN sp ELSE 0

\* line 244: column_parsing.findall(field)[0]: the leftmost match, as
\* [found, column, definition]; found = FALSE is the IndexError of [0]
RECURSIVE ColumnParsing(_, _)
ColumnParsing(field, i) ==
    IF i > Len(field) THEN [found |-> FALSE, column |-> <<>>, definition |-> <<>>]
    ELSE LET sp == ParseAt(field, i)
         IN  IF sp = 0 THEN ColumnParsing(field, i + 1)
             ELSE [found |-> TRUE,
                   column |-> WordRun(field, IF IsQuote(field[i]) THEN i + 1 ELSE i),
                   definition |-> Sub(field, sp + 1, Len(field))]

\* lines 167-176: drop_column's loop: [raised, fields, columns]
RECURSIVE DropScan(_, _)
DropScan(fs, column_name) ==
    IF fs = <<>> THEN [raised |-> FALSE, fields |-> <<>>, columns |-> <<>>]
    ELSE LET column == MatchCol(Head(fs))
             rest   == DropScan(Tail(fs), column_name)
         IN  IF column = <<>> \/ rest.raised
             THEN [raised |-> TRUE, fields |-> <<>>, columns |-> <<>>]
             ELSE IF column = column_name THEN rest
             ELSE [raised |-> FALSE, fields |-> <<Head(fs)>> \o rest.fields,
                   columns |-> <<column>> \o rest.columns]

\* lines 203-212: rename_column's loop: [raised, found, fields]
RECURSIVE RenameScan(_, _, _)
RenameScan(fs, old_column, new_column) ==
    IF fs = <<>> THEN [raised |-> FALSE, found |-> FALSE, fields |-> <<>>]
    ELSE LET col_name == MatchCol(Head(fs))
             rest     == RenameScan(Tail(fs), old_column, new_column)
             hit      == old_column = col_name
         IN  IF col_name = <<>> \/ rest.raised
             THEN [raised |-> TRUE, found |-> FALSE, fields |-> <<>>]
             ELSE [raised |-> FALSE, found |-> hit \/ rest.found,
                   fields |-> <<IF hit THEN RenameLead(Head(fs), old_column, new_column)
                                ELSE Head(fs)>> \o rest.fields]

\* a faulty variant: the field is rebuilt without quotes around the name
Rebuild_Unquoted(column, definition) ==
    column \o SP \o
        (IF definition[Len(definition)] = "," THEN Sub(definition, 1, Len(definition) - 1)
         ELSE definition)

\* lines 248-250: the trailing comma trimmed, the field rebuilt as "<name>" <tail>
Rebuild(column, definition) ==
    Quoted(column) \o SP \o
        (IF definition[Len(definition)] = "," THEN Sub(definition, 1, Len(definition) - 1)
         ELSE definition)

\* lines 240-250: replace_definition's loop: [raised, found, fields]; it raises
\* IndexError on a field the pattern does not match and on an empty definition
RECURSIVE ReplaceScan(_, _, _)
ReplaceScan(fs, column_name, new_definition) ==
    IF fs = <<>> THEN [raised |-> FALSE, found |-> FALSE, fields |-> <<>>]
    ELSE LET m          == ColumnParsing(Head(fs), 1)
             hit        == m.column = column_name
             definition == IF hit THEN new_definition ELSE m.definition
         IN  IF ~m.found \/ definition = <<>>
             THEN [raised |-> TRUE, found |-> FALSE, fields |-> <<>>]
             ELSE LET rest == ReplaceScan(Tail(fs), column_name, new_definition)
                  IN  IF rest.raised
                      THEN [raised |-> TRUE, found |-> FALSE, fields |-> <<>>]
                      ELSE [raised |-> FALSE, found |-> hit \/ rest.found,
                            fields |-> <<Rebuild(m.column, definition)>> \o rest.fields]

-----------------------------------------------------------------------------
(* SQLite as the statements of the source use it.  A table is                *)
(* [exists, defs, rows]: defs are the column and constraint definitions as   *)
(* the engine reads them from the CREATE TABLE text (split at the commas     *)
(* outside parentheses), rows are sequences of values in column order.       *)

NULL == "NULL"
NoTable == [exists |-> FALSE, defs |-> <<>>, rows |-> <<>>]

Contains(s, t) == \E i \in 1..Len(s) : HasAt(s, t, i)

\* the parenthesis depth of s after its first n characters
DepthAt(s, n) == Cardinality({k \in 1..n : s[k] = "("})
                    - Cardinality({k \in 1..n : s[k] = ")"})

\* the engine's split of a column list: at the commas of parenthesis depth 0
RECURSIVE SplitTop(_, _)
SplitTop(s, start) ==
    LET ks == {k \in start..Len(s) : s[k] = "," /\ DepthAt(s, k) = 0}
    IN  IF ks = {} THEN <<Sub(s, start, Len(s))>>
        ELSE <<Sub(s, start, Least(ks) - 1)>> \o SplitTop(s, Least(ks) + 1)

EngineDefs(text) ==
    LET pieces == SplitTop(text, 1)
    IN  [i \in 1..Len(pieces) |-> Strip(pieces[i])]

Balanced(s) == /\ \A n \in 1..Len(s) : DepthAt(s, n) >= 0
               /\ DepthAt(s, Len(s)) = 0

\* a table-level constraint: the definition starts with the bare keyword
IsConstraint(def) ==
    /\ HasAt(def, FOREIGN, 1)
    /\ (Len(def) = Len(FOREIGN) \/ ~IsWord(def[Len(FOREIGN) + 1]))

\* the engine's column name of a definition: quoted or bare; <<>> if there is none
ColName(def) ==
    IF def = <<>> THEN <<>>
    ELSE IF IsQuote(def[1])
    THEN LET j == IndexFrom(def, def[1], 2)
         IN  IF j = 0 THEN <<>> ELSE Sub(def, 2, j - 1)
    ELSE WordRun(def, 1)

ColTail(def) ==
    LET n == Len(ColName(def)) + (IF IsQuote(def[1]) THEN 2 ELSE 0)
    IN  Sub(def, n + 1, Len(def))

HasNotNull(def) == Contains(ColTail(def), NOTNULL)

\* a parenthesis that follows the type name holds numbers only
TypeOk(def) ==
    LET tail == ColTail(def)
        p    == IndexFrom(tail, "(", 1)
        q    == IndexFrom(tail, ")", p + 1)
    IN  \/ p = 0
        \/ Contains(Sub(tail, 1, p - 1), REFERENCES)
        \/ /\ q > p + 1
           /\ \A k \in (p + 1)..(q - 1) :
                tail[k] \in {"0", "1", "2", "3", "4", "5", "6", "7", "8", "9", ",", " "}

\* the local column a FOREIGN KEY (...) clause names
FkColumn(def) ==
    LET p == IndexFrom(def, "(", 1)
        q == IndexFrom(def, ")", p + 1)
    IN  IF p = 0 \/ q = 0 THEN <<>> ELSE ColName(Strip(Sub(def, p + 1, q - 1)))

ColumnDefs(defs) == SelectSeq(defs, LAMBDA d : ~IsConstraint(d))
ConstraintDefs(defs) == SelectSeq(defs, IsConstraint)
ColNames(defs) == LET cds == ColumnDefs(defs)
                  IN  [i \in 1..Len(cds) |-> ColName(cds[i])]
ColIndex(defs, name) ==
    LET names == ColNames(defs)
    IN  IF \E i \in 1..Len(names) : names[i] = name
        THEN CHOOSE i \in 1..Len(names) : names[i] = name
        ELSE 0

\* lines 141-142: ',\n    '.join(fields)
RECURSIVE JoinFields(_)
JoinFields(fs) ==
    IF fs = <<>> THEN <<>>
    ELSE IF Len(fs) = 1 THEN Head(fs)
    ELSE Head(fs) \o COMMA \o JoinFields(Tail(fs))

\* whether the engine accepts CREATE TABLE with this column list
CreateAccepted(text) ==
    LET defs  == EngineDefs(text)
        cds   == ColumnDefs(defs)
        kds   == ConstraintDefs(defs)
        names == ColNames(defs)
    IN  /\ Balanced(text)
        /\ cds # <<>>
        /\ \A i \in 1..Len(defs) : defs[i] # <<>> /\ Balanced(defs[i])
        /\ \A i \in 1..Len(cds) : names[i] # <<>> /\ TypeOk(cds[i])
        /\ \A i, j \in 1..Len(cds) : names[i] = names[j] => i = j
        /\ \A i \in 1..Len(kds) : \E j \in 1..Len(cds) : names[j] = FkColumn(kds[i])
        \* column definitions come before table constraints
        /\ \A i, j \in 1..Len(defs) :
                (IsConstraint(defs[i]) /\ ~IsConstraint(defs[j])) => j < i

\* lines 141-143: CREATE TABLE "<name>" (...): [ok, db]
SqlCreateTable(db, name, fs) ==
    LET text == JoinFields(fs)
    IN  IF ~db[name].exists /\ CreateAccepted(text)
        THEN [ok |-> TRUE,
              db |-> [db EXCEPT ![name] =
                        [exists |-> TRUE, defs |-> EngineDefs(text), rows |-> <<>>]]]
        ELSE [ok |-> FALSE, db |-> db]

\* rows violating a NOT NULL column of defs
RowsAccepted(defs, rows) ==
    LET cds == ColumnDefs(defs)
    IN  \A r \in 1..Len(rows) : \A c \in 1..Len(cds) :
            HasNotNull(cds[c]) => rows[r][c] # NULL

\* a faulty variant: the statement names <t>_tmp on both sides and copies nothing
SqlInsertStar_FromTmp(db) ==
    IF ~db["tmp"].exists THEN [err |-> "OperationalError", db |-> db]
    ELSE [err |-> "", db |-> [db EXCEPT !["tmp"].rows = @ \o @]]

\* lines 222 and 261: INSERT INTO <t>_tmp SELECT * FROM <t>:
\* [err, db], err one of "", "OperationalError", "IntegrityError"
SqlInsertStar(db) ==
    LET src == db["live"]
        dst == db["tmp"]
    IN  IF ~src.exists \/ ~dst.exists
           \/ Len(ColumnDefs(src.defs)) # Len(ColumnDefs(dst.defs))
        THEN [err |-> "OperationalError", db |-> db]
        ELSE IF ~RowsAccepted(dst.defs, src.rows)
        THEN [err |-> "IntegrityError", db |-> db]
        ELSE [err |-> "", db |-> [db EXCEPT !["tmp"].rows = dst.rows \o src.rows]]

\* a faulty variant: the SELECT side reads the source columns by position, not by name
SqlInsertColumns_Positional(db, cols) ==
    LET src  == db["live"]
        dst  == db["tmp"]
        dcs  == ColNames(dst.defs)
        copy == [k \in 1..Len(src.rows) |-> [c \in 1..Len(dcs) |-> src.rows[k][c]]]
    IN  IF \/ ~src.exists \/ ~dst.exists
           \/ \E k \in 1..Len(cols) : ColIndex(dst.defs, cols[k]) = 0
           \/ \E k \in 1..Len(cols) : ColIndex(src.defs, cols[k]) = 0
        THEN [err |-> "OperationalError", db |-> db]
        ELSE IF ~RowsAccepted(dst.defs, copy)
        THEN [err |-> "IntegrityError", db |-> db]
        ELSE [err |-> "", db |-> [db EXCEPT !["tmp"].rows = dst.rows \o copy]]

\* lines 189-193: INSERT INTO <t>_tmp (cols) SELECT cols FROM <t>
SqlInsertColumns(db, cols) ==
    LET src  == db["live"]
        dst  == db["tmp"]
        dcs  == ColNames(dst.defs)
        \* the value of column dcs[c] in the copy of source row r
        val(r, c) ==
            IF \E k \in 1..Len(cols) : cols[k] = dcs[c]
            THEN r[ColIndex(src.defs, dcs[c])]
            ELSE NULL
        copy == [k \in 1..Len(src.rows) |->
                    [c \in 1..Len(dcs) |-> val(src.rows[k], c)]]
    IN  IF \/ ~src.exists \/ ~dst.exists
           \/ \E k \in 1..Len(cols) : ColIndex(dst.defs, cols[k]) = 0
           \/ \E k \in 1..Len(cols) : ColIndex(src.defs, cols[k]) = 0
        THEN [err |-> "OperationalError", db |-> db]
        ELSE IF ~RowsAccepted(dst.defs, copy)
        THEN [err |-> "IntegrityError", db |-> db]
        ELSE [err |-> "", db |-> [db EXCEPT !["tmp"].rows = dst.rows \o copy]]

\* lines 151, 159: ALTER TABLE <from> RENAME TO <to>: [ok, db]
SqlRename(db, from, to) ==
    IF db[from].exists /\ ~db[to].exists
    THEN [ok |-> TRUE, db |-> [db EXCEPT ![to] = db[from], ![from] = NoTable]]
    ELSE [ok |-> FALSE, db |-> db]

\* lines 156, 275: DROP TABLE <name>: [ok, db]
SqlDrop(db, name) ==
    IF db[name].exists
    THEN [ok |-> TRUE, db |-> [db EXCEPT ![name] = NoTable]]
    ELSE [ok |-> FALSE, db |-> db]

-----------------------------------------------------------------------------
(* The Squeak instance and its calls.  Each database statement is a step.    *)
(* The sqlite3 module of the Python 2 this source is written for commits an  *)
(* open transaction before a statement that is not INSERT, UPDATE, DELETE or *)
(* REPLACE and runs that statement in autocommit mode; it opens a            *)
(* transaction before an INSERT.                                             *)

Bodies == {Body1, Body2, Body3}
InitialData == { <<>>,
                 << <<"1", "1">>, <<"2", "2">> >>,
                 << <<"1", NULL>>, <<"2", "1">> >> }
ColumnArgs == {ID, NM, ZZ, FOREIGN}
NewColumnArgs == {XX, ID}
DefinitionArgs == {INT, INT \o SP \o NOTNULL, INT \o <<",">>, <<>>}

\* the column lists SpecParse splits: every text of balanced parentheses over
\* ParseAlphabet up to MaxLen characters, and the stored tables' own
ParseAlphabet == {"a", "b", "(", ")", ",", " "}
ParseInputs ==
    {s \in UNION {[1..n -> ParseAlphabet] : n \in 0..MaxLen} : Balanced(s)}
        \cup Bodies \cup {Body4}

NoCall == [op |-> "none", column |-> <<>>, arg |-> <<>>, safe |-> FALSE]

\* a catalog row of the lookup: the sql column holds text or is null; the
\* text is kept as the part the pattern of lines 79-82 captures
SqlRow(text) == [isnull |-> FALSE, sql |-> text]
NullRow == [isnull |-> TRUE, sql |-> <<>>]

\* the lookups of a table with these column lists: the table's own row alone
TableOnly(bodies) == {<<SqlRow(b)>> : b \in bodies}

\* the lookups SpecLookup constructs from: no row (no such table), the
\* table's row alone, and the table's row followed by the rows of its indexes
\* (an automatic index has a null sql, a CREATE INDEX its own text)
LookupBodies ==
    {s \in UNION {[1..n -> ParseAlphabet] : n \in 0..LookupLen} : Balanced(s)}
        \cup Bodies \cup {Body4}
LookupInputs ==
    {<<>>} \cup TableOnly(LookupBodies)
           \cup {<<SqlRow(b), NullRow>> : b \in LookupBodies}
           \cup {<<SqlRow(b), SqlRow(IndexSql)>> : b \in LookupBodies}
           \cup {<<SqlRow(b), NullRow, NullRow>> : b \in LookupBodies}

\* a database in which the lookup for table_name yields one of rowsets, and
\* Squeak(db, table_name) about to run
Stored(rowsets, data) ==
    /\ lookup \in rowsets
    /\ creation_sql = <<>>
    /\ ctor = "pending"
    /\ fields = <<>>
    /\ \E rows \in data :
          disk = [n \in {"live", "tmp", "initial"} |->
                    IF n = "live" /\ lookup # <<>>
                    THEN [exists |-> TRUE, defs |-> EngineDefs(lookup[1].sql),
                          rows |-> rows]
                    ELSE NoTable]
    /\ conn = disk
    /\ inTxn = FALSE
    /\ pc = "construct"
    /\ call = NoCall
    /\ new_fields = <<>>
    /\ columns = <<>>
    /\ result = "none"
    /\ raisedAt = ""
    /\ pre = [disk |-> disk, fields |-> fields]
    /\ ncalls = 0
    /\ log = <<>>

Init == Stored(TableOnly(Bodies), InitialData)

InitParse == Stored(TableOnly(ParseInputs), {<<>>})

InitLookup == Stored(LookupInputs, {<<>>})

\* a faulty variant: the lookup fails unless it yields exactly one row
FetchOneSql_SingleRow(rows) ==
    IF Len(rows) # 1 THEN [raised |-> TRUE, sql |-> <<>>]
    ELSE [raised |-> FALSE, sql |-> rows[1].sql]

\* lines 128-131: cursor.execute("select sql from sqlite_master where tbl_name
\* = ?").fetchone()[0]: fetchone() is the first row, or None when there is no
\* row, and None[0] raises TypeError
FetchOneSql(rows) ==
    IF rows = <<>> THEN [raised |-> TRUE, sql |-> <<>>]
    ELSE [raised |-> FALSE, sql |-> rows[1].sql]

\* lines 121-137: Squeak.__init__: the creation SQL is read and split
Construct ==
    /\ pc = "construct"
    /\ LET got == FetchOneSql(lookup)
           r   == get_fields_from_sql(got.sql)
       IN  IF got.raised
           THEN /\ ctor' = "SqueakError" /\ pc' = "failed"
                /\ UNCHANGED <<lookup, creation_sql, fields, pre>>
           ELSE /\ creation_sql' = got.sql
                /\ ctor' = IF r.raised THEN "IndexError" ELSE "ok"
                /\ fields' = r.fields
                /\ pc' = IF r.raised THEN "failed" ELSE "idle"
                /\ pre' = [disk |-> disk, fields |-> r.fields]
    /\ UNCHANGED <<lookup, disk, conn, inTxn, call, new_fields, columns,
                   result, raisedAt, ncalls, log>>

\* the start of a call: the scan of the field list, which raises, returns
\* (False, message) or goes on to the create step
Enter(c, scan, found) ==
    /\ pc = "idle"
    /\ ncalls < MaxCalls
    /\ ncalls' = ncalls + 1
    /\ call' = c
    /\ pre' = [disk |-> disk, fields |-> fields]
    /\ log' = <<>>
    /\ IF scan.raised
       THEN /\ result' = "raise" /\ raisedAt' = "scan" /\ pc' = "idle"
            /\ UNCHANGED <<new_fields, columns>>
       ELSE IF ~found
       THEN /\ result' = "fail" /\ raisedAt' = "" /\ pc' = "idle"
            /\ UNCHANGED <<new_fields, columns>>
       ELSE /\ result' = "none" /\ raisedAt' = "" /\ pc' = "create"
            /\ new_fields' = scan.fields
            /\ columns' = IF c.op = "drop_column" THEN scan.columns ELSE <<>>
    /\ UNCHANGED <<lookup, creation_sql, fields, ctor, disk, conn, inTxn>>

\* lines 164-180
drop_column(column_name, safe) ==
    LET scan == DropScan(fields, column_name)
    IN  Enter([op |-> "drop_column", column |-> column_name, arg |-> <<>>,
               safe |-> safe],
              scan, Len(scan.fields) # Len(fields))

\* lines 202-215
rename_column(old_column, new_column, safe) ==
    LET scan == RenameScan(fields, old_column, new_column)
    IN  Enter([op |-> "rename_column", column |-> old_column, arg |-> new_column,
               safe |-> safe],
              scan, scan.found)

\* lines 233-253
replace_definition(column_name, new_definition, safe) ==
    LET scan == ReplaceScan(fields, column_name, new_definition)
    IN  Enter([op |-> "replace_definition", column |-> column_name,
               arg |-> new_definition, safe |-> safe],
              scan, scan.found)

\* a call ends by raising at step
Raise(step) ==
    /\ result' = "raise" /\ raisedAt' = step /\ pc' = "idle"

\* lines 139-145: _create_table(table_name + '_tmp', new_fields)
CreateTmp ==
    /\ pc = "create"
    /\ LET r == SqlCreateTable(conn, "tmp", new_fields)
       IN  /\ disk' = r.db /\ conn' = r.db /\ inTxn' = FALSE
           /\ IF r.ok
              THEN /\ pc' = "populate" /\ log' = log \o <<"create", "commit">>
                   /\ UNCHANGED <<result, raisedAt>>
              ELSE /\ Raise("create") /\ log' = log \o <<"create">>
    /\ UNCHANGED <<lookup, creation_sql, fields, ctor, call, new_fields, columns, pre, ncalls>>

\* lines 184-193, 221-223, 258-263: the copy into the shadow table
Populate ==
    /\ pc = "populate"
    /\ LET r == IF call.op = "drop_column" THEN SqlInsertColumns(conn, columns)
                ELSE SqlInsertStar(conn)
       IN  /\ conn' = r.db /\ inTxn' = TRUE
           /\ log' = log \o <<"populate">>
           /\ IF r.err = ""
              THEN pc' = "commit" /\ UNCHANGED <<result, raisedAt>>
              ELSE IF call.op = "replace_definition" /\ r.err = "IntegrityError"
              THEN pc' = "except" /\ UNCHANGED <<result, raisedAt>>
              ELSE Raise("populate")
    /\ UNCHANGED <<lookup, creation_sql, fields, ctor, disk, call, new_fields, columns, pre,
                   ncalls>>

\* a faulty variant: the copy is not committed before the tables are swapped
CommitPopulate_Skipped ==
    /\ pc = "commit"
    /\ pc' = "cleanup"
    /\ UNCHANGED <<lookup, creation_sql, fields, ctor, disk, conn, inTxn, call,
                   new_fields, columns, result, raisedAt, pre, ncalls, log>>

\* lines 194, 224, 279: self.connection.commit()
CommitPopulate ==
    /\ pc = "commit"
    /\ disk' = conn /\ inTxn' = FALSE
    /\ log' = log \o <<"commit">>
    /\ pc' = "cleanup"
    /\ UNCHANGED <<lookup, creation_sql, fields, ctor, conn, call, new_fields, columns,
                   result, raisedAt, pre, ncalls>>

\* a faulty variant: the except branch drops the live table instead of the shadow table
DropTmp_DropsLive ==
    /\ pc = "except"
    /\ LET r == SqlDrop(conn, "live")
       IN  /\ disk' = r.db /\ conn' = r.db /\ inTxn' = FALSE
           /\ log' = log \o <<"droptmp">>
           /\ IF r.ok THEN /\ result' = "fail" /\ raisedAt' = "" /\ pc' = "idle"
              ELSE Raise("except")
    /\ UNCHANGED <<lookup, creation_sql, fields, ctor, call, new_fields, columns, pre, ncalls>>

\* a faulty variant: the except branch returns (False, msg) without dropping the shadow table
DropTmp_KeepsTmp ==
    /\ pc = "except"
    /\ log' = log \o <<"droptmp">>
    /\ result' = "fail" /\ raisedAt' = "" /\ pc' = "idle"
    /\ UNCHANGED <<lookup, creation_sql, fields, ctor, disk, conn, inTxn, call, new_fields,
                   columns, pre, ncalls>>

\* lines 265-277: except sqlite3.IntegrityError: DROP TABLE <t>_tmp, return False
DropTmp ==
    /\ pc = "except"
    /\ LET r == SqlDrop(conn, "tmp")
       IN  /\ disk' = r.db /\ conn' = r.db /\ inTxn' = FALSE
           /\ log' = log \o <<"droptmp">>
           /\ IF r.ok THEN /\ result' = "fail" /\ raisedAt' = "" /\ pc' = "idle"
              ELSE Raise("except")
    /\ UNCHANGED <<lookup, creation_sql, fields, ctor, call, new_fields, columns, pre, ncalls>>

\* a faulty variant: the live table is dropped whatever safe is
CleanupLive_AlwaysDrops ==
    /\ pc = "cleanup"
    /\ LET r == SqlDrop(conn, "live")
       IN  /\ disk' = r.db /\ conn' = r.db /\ inTxn' = FALSE
           /\ log' = log \o <<"droplive">>
           /\ IF r.ok THEN pc' = "swap" /\ UNCHANGED <<result, raisedAt>>
              ELSE Raise("swap")
    /\ UNCHANGED <<lookup, creation_sql, fields, ctor, call, new_fields, columns, pre, ncalls>>

\* lines 147-156: _cleanup_tables: the live table is renamed or dropped
CleanupLive ==
    /\ pc = "cleanup"
    /\ LET r == IF call.safe THEN SqlRename(conn, "live", "initial")
                ELSE SqlDrop(conn, "live")
       IN  /\ disk' = r.db /\ conn' = r.db /\ inTxn' = FALSE
           /\ log' = log \o <<IF call.safe THEN "archive" ELSE "droplive">>
           /\ IF r.ok THEN pc' = "swap" /\ UNCHANGED <<result, raisedAt>>
              ELSE Raise("swap")
    /\ UNCHANGED <<lookup, creation_sql, fields, ctor, call, new_fields, columns, pre, ncalls>>

\* lines 158-162: _cleanup_tables: the shadow table takes the live name
CleanupSwap ==
    /\ pc = "swap"
    /\ LET r == SqlRename(conn, "tmp", "live")
       IN  /\ disk' = r.db /\ conn' = r.db /\ inTxn' = FALSE
           /\ IF r.ok THEN /\ pc' = "assign" /\ log' = log \o <<"swap", "commit">>
                           /\ UNCHANGED <<result, raisedAt>>
              ELSE Raise("swap") /\ log' = log \o <<"swap">>
    /\ UNCHANGED <<lookup, creation_sql, fields, ctor, call, new_fields, columns, pre, ncalls>>

\* lines 198-200, 229-231, 283-286: self.fields = <new fields>; return True, ...
AssignFields ==
    /\ pc = "assign"
    /\ fields' = new_fields
    /\ result' = "ok" /\ raisedAt' = "" /\ pc' = "idle"
    /\ UNCHANGED <<lookup, creation_sql, ctor, disk, conn, inTxn, call, new_fields, columns,
                   pre, ncalls, log>>

Next ==
    \/ Construct
    \/ \E c \in ColumnArgs, safe \in BOOLEAN : drop_column(c, safe)
    \/ \E c \in ColumnArgs, n \in NewColumnArgs, safe \in BOOLEAN :
          rename_column(c, n, safe)
    \/ \E c \in ColumnArgs, d \in DefinitionArgs, safe \in BOOLEAN :
          replace_definition(c, d, safe)
    \/ CreateTmp
    \/ Populate
    \/ CommitPopulate
    \/ DropTmp
    \/ CleanupLive
    \/ CleanupSwap
    \/ AssignFields

Spec == Init /\ [][Next]_vars

NextParse == Construct

SpecParse == InitParse /\ [][NextParse]_vars

\* the columns of the live table, as the engine names them
LiveColumns == {ColNames(disk["live"].defs)[i] :
                  i \in 1..Len(ColNames(disk["live"].defs))}

\* the first call on the instance: rename_column of a column of the table
PairRename ==
    /\ ncalls = 0
    /\ \E c \in ColumnArgs, n \in NewColumnArgs, safe \in BOOLEAN :
          c \in LiveColumns /\ rename_column(c, n, safe)

\* the second call on the instance: replace_definition on any column
PairReplace ==
    /\ ncalls = 1
    /\ \E c \in ColumnArgs \cup NewColumnArgs, d \in DefinitionArgs, safe \in BOOLEAN :
          replace_definition(c, d, safe)

\* rename_column then replace_definition on a fresh instance
NextPair ==
    \/ Construct
    \/ PairRename
    \/ PairReplace
    \/ CreateTmp
    \/ Populate
    \/ CommitPopulate
    \/ DropTmp
    \/ CleanupLive
    \/ CleanupSwap
    \/ AssignFields

SpecPair == Init /\ [][NextPair]_vars

\* rename_column calls on the tables of tests.py's shape and on a table two of
\* whose fields start with the same word
InitRename == Stored(TableOnly({Body1, Body5}), InitialData)

NextRename ==
    \/ Construct
    \/ \E c \in ColumnArgs, n \in NewColumnArgs, safe \in BOOLEAN :
          rename_column(c, n, safe)
    \/ CreateTmp
    \/ Populate
    \/ CommitPopulate
    \/ CleanupLive
    \/ CleanupSwap
    \/ AssignFields

SpecRename == InitRename /\ [][NextRename]_vars

NextLookup == Construct

SpecLookup == InitLookup /\ [][NextLookup]_vars

-----------------------------------------------------------------------------
(* The claims *)

\* a call has completed: it returned success, returned failure, or raised
Completed == pc = "idle" /\ result # "none"

InLog(step) == \E i \in 1..Len(log) : log[i] = step

\* the leading identifiers of the field list the call started from
PreIdents == {MatchCol(pre.fields[i]) : i \in 1..Len(pre.fields)}

\* C1: a call of any of the three operations that ends without success (it
\* returns (False, message) or raises at the scan, create, populate or swap
\* step) leaves the live table on disk with the column definitions and the
\* rows it had before the call.
C1_FailedCallKeepsLiveTable ==
    (Completed /\ result \in {"fail", "raise"}) => disk["live"] = pre.disk["live"]

\* a call raised at the swap step, after the shadow table was filled
C1_Witness ==
    /\ Completed /\ result = "raise" /\ raisedAt = "swap"
    /\ disk["tmp"].exists /\ disk["tmp"].rows # <<>>

\* C2: whenever a call has completed (returned success, returned failure or
\* raised), no <table_name>_tmp table exists on disk.
C2_NoTmpAfterCall == Completed => ~disk["tmp"].exists

\* C3 as claimed: after a successful safe call <table_name>_initial holds the
\* live table of before the call; after a successful call with safe=False no
\* <table_name>_initial exists.
C3_Original ==
    (Completed /\ result = "ok") =>
        IF call.safe THEN disk["initial"] = pre.disk["live"]
        ELSE ~disk["initial"].exists

\* C3 as amended: after a successful safe call <table_name>_initial holds the
\* schema and the rows the live table had before the call; a successful call
\* with safe=False leaves <table_name>_initial as it was before the call (it
\* creates none and removes none).
C3_InitialAfterSuccess ==
    (Completed /\ result = "ok") =>
        IF call.safe
        THEN disk["initial"].exists /\ disk["initial"] = pre.disk["live"]
        ELSE disk["initial"] = pre.disk["initial"]

\* an unsafe call succeeded while an earlier archive existed
C3_Witness ==
    /\ Completed /\ result = "ok" /\ ~call.safe
    /\ pre.disk["initial"].exists /\ pre.disk["initial"].rows # <<>>

\* C4: a call naming a column that is the leading identifier of no field
\* returns (False, message) without raising, creates no <table_name>_tmp and
\* no <table_name>_initial, and leaves the live table and the field list
\* unchanged.
C4_UnknownColumnReturnsFalse ==
    (Completed /\ call.column \notin PreIdents) =>
        /\ result = "fail"
        /\ disk = pre.disk
        /\ fields = pre.fields

\* the columns of the live table the call started from, as the engine names them
PreColumns == {ColNames(pre.disk["live"].defs)[i] :
                 i \in 1..Len(ColNames(pre.disk["live"].defs))}

\* nothing but the drop itself stands in the way of the call: no
\* <table_name>_tmp is left over, no archive bars a safe swap, another column
\* remains, and no table constraint names the column
DropServiceable ==
    /\ ~pre.disk["tmp"].exists
    /\ call.safe => ~pre.disk["initial"].exists
    /\ PreColumns # {call.column}
    /\ \A i \in 1..Len(pre.disk["live"].defs) :
          IsConstraint(pre.disk["live"].defs[i])
              => FkColumn(pre.disk["live"].defs[i]) # call.column

\* C5: drop_column(C) for a column C of the table succeeds and leaves the field
\* list and the live table with exactly one entry fewer, the others kept in
\* order; for C absent the field list is unchanged and the call returns
\* (False, ...).  The first half is stated for the calls that nothing but the
\* drop itself can stop (DropServiceable).
C5_DropColumn ==
    (Completed /\ call.op = "drop_column") =>
        IF call.column \in PreColumns
        THEN DropServiceable =>
             /\ result = "ok"
             /\ Len(fields) = Len(pre.fields) - 1
             /\ fields = SelectSeq(pre.fields, LAMBDA f : MatchCol(f) # call.column)
             /\ Len(ColumnDefs(disk["live"].defs))
                    = Len(ColumnDefs(pre.disk["live"].defs)) - 1
        ELSE result = "fail" /\ fields = pre.fields

\* the rows of the live table are those of before the call: the same rows in
\* the same number, each with the value it had in every column that is kept
RowsKept ==
    LET old == pre.disk["live"]
        new == disk["live"]
        names == ColNames(new.defs)
    IN  /\ new.exists
        /\ Len(new.rows) = Len(old.rows)
        /\ IF call.op = "drop_column"
           THEN /\ \A c \in 1..Len(ColNames(old.defs)) :
                      ColNames(old.defs)[c] # call.column
                          => ColIndex(new.defs, ColNames(old.defs)[c]) # 0
                /\ \A r \in 1..Len(new.rows) : \A c \in 1..Len(names) :
                      /\ ColIndex(old.defs, names[c]) # 0
                      /\ new.rows[r][c] = old.rows[r][ColIndex(old.defs, names[c])]
           ELSE new.rows = old.rows

C7_IntegrityFailureCleansUp ==
    (pc = "idle" /\ InLog("droptmp")) =>
        /\ result = "fail"
        /\ ~disk["tmp"].exists /\ ~conn["tmp"].exists /\ ~inTxn
        /\ disk["initial"] = pre.disk["initial"]
        /\ disk["live"] = pre.disk["live"]
        /\ fields = pre.fields

\* NOT NULL was added to a column that holds a null
C7_Witness ==
    /\ Completed /\ call.op = "replace_definition" /\ InLog("droptmp")
    /\ HasNotNull(Quoted(call.column) \o SP \o call.arg)
    /\ \E r \in 1..Len(disk["live"].rows) : \E c \in 1..Len(disk["live"].rows[r]) :
          disk["live"].rows[r][c] = NULL

\* C8: after construction and after every call, however it ended, the field
\* list equals the column definitions of the table named table_name on disk.
C8_FieldsMatchDisk == pc = "idle" => fields = disk["live"].defs

\* the number of commas of s outside every parenthesis
TopCommas(s) == Cardinality({k \in 1..Len(s) : s[k] = "," /\ DepthAt(s, k) = 0})

\* no parenthesis of s lies inside another
NoNesting(s) == \A n \in 1..Len(s) : DepthAt(s, n) <= 1

\* C9: every parenthesized span is restored to the place it was taken from:
\* each fragment returned equals the corresponding top-level piece of the
\* column list, trimmed, fragments with two or more spans included.  Stated
\* for column lists without nested parentheses, where the pieces are split at
\* the right commas.
C9_SpansRestoredInPlace ==
    (ctor # "pending" /\ NoNesting(creation_sql)) =>
        ctor = "ok" /\ fields = EngineDefs(InlineSql(creation_sql))

\* C10: the column list is split only at commas outside every parenthesis: the
\* number of fragments is one more than the number of top-level commas.
C10_SplitAtTopLevelCommasOnly ==
    ctor # "pending" =>
        ctor = "ok" /\ Len(fields) = TopCommas(InlineSql(creation_sql)) + 1

\* C11 as claimed: construction fails with SqueakError whenever the lookup
\* yields zero rows, a row whose sql is null, or more than one row, and
\* succeeds only on exactly one row carrying creation SQL.
C11_Original ==
    ctor # "pending" =>
        (ctor = "SqueakError" <=> ~(Len(lookup) = 1 /\ ~lookup[1].isnull))

\* C11 as amended: construction fails with SqueakError exactly when the lookup
\* yields no row; when it yields one or more rows the sql of the first row is
\* taken as the creation SQL and the other rows are ignored.
C11_FirstRowTaken ==
    ctor # "pending" =>
        /\ ctor = "SqueakError" <=> lookup = <<>>
        /\ lookup # <<>> => creation_sql = lookup[1].sql

\* a table constructed although the lookup yields the null-sql row of its
\* automatic index as well
C11_Witness ==
    /\ ctor = "ok" /\ Len(lookup) = 2 /\ lookup[2].isnull
    /\ Len(fields) = 2

\* the field list and the number of columns of the table the instance was
\* constructed on
FieldsBefore == get_fields_from_sql(creation_sql).fields
ColumnsBefore == Len(ColumnDefs(EngineDefs(lookup[1].sql)))

\* C12: rename_column of a column of the table followed by replace_definition
\* on any column, whatever the outcome of either call, leaves the field list
\* with as many entries as before the two calls and the live table with as
\* many columns.
C12_PairKeepsCounts ==
    (Completed /\ ncalls = 2) =>
        /\ Len(fields) = Len(FieldsBefore)
        /\ Len(ColumnDefs(disk["live"].defs)) = ColumnsBefore

\* both calls succeeded: the field list is no longer the one constructed
C12_Witness ==
    /\ Completed /\ ncalls = 2 /\ result = "ok"
    /\ call.op = "replace_definition"
    /\ \E i \in 1..Len(fields) : MatchCol(fields[i]) = XX
    /\ fields # FieldsBefore

\* every field but those of the column the call names has the name and the
\* tail it had before the call
OthersKeepNameAndTail ==
    \A i \in 1..Len(pre.fields) :
        MatchCol(pre.fields[i]) # call.column =>
            /\ ColName(fields[i]) = ColName(pre.fields[i])
            /\ ColTail(fields[i]) = ColTail(pre.fields[i])

TrimmedArg ==
    IF call.arg # <<>> /\ call.arg[Len(call.arg)] = ","
    THEN Sub(call.arg, 1, Len(call.arg) - 1)
    ELSE call.arg

FirstRewritten(fs, old, new) ==
    LET hits == {i \in 1..Len(fs) : MatchCol(fs[i]) = old}
    IN  [i \in 1..Len(fs) |->
            IF hits # {} /\ i = Least(hits) THEN RenameLead(fs[i], old, new)
            ELSE fs[i]]

\* C14: the field list rename_column(old, new) builds is the old one with only
\* the first field whose leading identifier equals old rewritten (its leading
\* identifier replaced by the quoted new name, the rest of its text kept);
\* every other field, a later one with the same leading identifier included,
\* is unchanged.
C14_RenamesFirstOnly ==
    (pc = "create" /\ call.op = "rename_column") =>
        new_fields = FirstRewritten(fields, call.column, call.arg)

\* C15: a table-level constraint fragment passes through the three
\* operations: a call naming no column of the table does not succeed (the
\* fragment's first word is no column name), and after a successful call every
\* constraint fragment of the old field list is in the new one with its text
\* unchanged.
C15_ConstraintPassesThrough ==
    Completed =>
        /\ call.column \notin PreColumns => result # "ok"
        /\ result = "ok" =>
              \A i \in 1..Len(pre.fields) :
                  IsConstraint(pre.fields[i]) =>
                      \E j \in 1..Len(fields) : fields[j] = pre.fields[i]

\* C16: the column list drop_column copies with is exactly the names of the
\* columns of the shadow table, in order: it leaves out the dropped column and
\* names nothing that is not a column of the live table and of the shadow
\* table.
C16_ProjectionIsSurvivors ==
    (pc = "populate" /\ call.op = "drop_column") =>
        /\ columns = ColNames(conn["tmp"].defs)
        /\ \A k \in 1..Len(columns) :
              /\ columns[k] # call.column
              /\ ColIndex(conn["live"].defs, columns[k]) # 0
              /\ ColIndex(conn["tmp"].defs, columns[k]) # 0

\* the call's statements so far begin with these
LogStartsWith(steps) ==
    Len(log) >= Len(steps) /\ SubSeq(log, 1, Len(steps)) = steps

\* C17: in every operation the shadow table is created and committed, then
\* filled and committed, then the tables are swapped and committed: the copy
\* is not started before the creation is committed, the live table is not
\* renamed or dropped before the whole copy is in the committed shadow table,
\* and when the call returns (on any path) nothing it did is uncommitted.
C17_PhasesInOrder ==
    /\ InLog("populate") => LogStartsWith(<<"create", "commit">>)
    /\ (InLog("archive") \/ InLog("droplive") \/ InLog("swap")) =>
          LogStartsWith(<<"create", "commit", "populate", "commit">>)
    /\ InLog("swap") => (InLog("archive") \/ InLog("droplive"))
    /\ (pc \notin {"construct", "failed"} /\ disk["live"] # pre.disk["live"]) =>
          /\ LogStartsWith(<<"create", "commit", "populate", "commit">>)
          /\ pc = "swap" =>
                /\ disk["tmp"].exists
                /\ Len(disk["tmp"].rows) = Len(pre.disk["live"].rows)
    /\ Completed => conn = disk
    /\ (Completed /\ result = "ok") =>
          log = <<"create", "commit", "populate", "commit",
                  IF call.safe THEN "archive" ELSE "droplive", "swap", "commit">>

\* a safe replace_definition went through its three phases on a table with rows
C17_Witness ==
    /\ Completed /\ result = "ok"
    /\ call.op = "replace_definition" /\ call.safe
    /\ disk["live"].rows # <<>> /\ disk["initial"].rows # <<>>
    /\ Len(log) = 7

\* table t holds every row the live table had when the call started, with the
\* value of every column the call does not drop
TableKeeps(t) ==
    LET old   == pre.disk["live"]
        names == ColNames(old.defs)
    IN  /\ t.exists
        /\ Len(t.rows) = Len(old.rows)
        /\ IF call.op = "drop_column"
           THEN \A c \in 1..Len(names) :
                    names[c] # call.column =>
                        /\ ColIndex(t.defs, names[c]) # 0
                        /\ \A r \in 1..Len(old.rows) :
                              t.rows[r][ColIndex(t.defs, names[c])] = old.rows[r][c]
           ELSE t.rows = old.rows

C19_StaleTmpBlocksCalls ==
    (Completed /\ pre.disk["tmp"].exists /\ call.column \in PreColumns) =>
        /\ result = "raise" /\ raisedAt = "create"
        /\ disk = pre.disk
        /\ fields = pre.fields

====
